---------------------------- MODULE Spec2Model ----------------------------
(***************************************************************************)
(* JStream: a Readable that serializes a value tree to JSON text fragment  *)
(* by fragment.  The tree may hold promises and readable streams (text     *)
(* streams and objectMode streams).                                        *)
(*                                                                         *)
(* Text is a sequence of atoms (one-character strings, plus a few named    *)
(* atoms for bytes and characters outside ASCII).  A fragment is a text.   *)
(***************************************************************************)
EXTENDS Integers, Sequences, FiniteSets, TLC

(***************************************************************************)
(* Bounds of the model.                                                    *)
(***************************************************************************)
\* chunks a text stream delivers at most
MaxChunks == 2
\* items an objectMode stream delivers at most
MaxItems == 2

(***************************************************************************)
(* Values.  A JavaScript value is a record tagged by t.                    *)
(***************************************************************************)
Undef == [t |-> "undef"]
Null == [t |-> "null"]
NaN == [t |-> "nan"]
\* Infinity and -Infinity
Infinity(neg) == [t |-> "inf", neg |-> neg]
Num(n) == [t |-> "num", n |-> n]
Bool(b) == [t |-> "bool", b |-> b]
Str(s) == [t |-> "str", s |-> s]
\* a function; ret is what a call of it returns
Fn(ret) == [t |-> "fn", ret |-> ret]
Arr(items) == [t |-> "arr", items |-> items]
\* an object: its own enumerable keys in insertion order, and their values
Obj(keys, vals) == [t |-> "obj", keys |-> keys, vals |-> vals]
\* a promise that resolves to val (ok) or rejects with err
Promise(id, ok, val, err) ==
    [t |-> "promise", id |-> id, ok |-> ok, val |-> val, err |-> err]
\* a Readable not in objectMode: its chunks are byte sequences
Text(id, chunks, fails) ==
    [t |-> "text", id |-> id, chunks |-> chunks, fails |-> fails]
\* a Readable in objectMode: its chunks are values
Items(id, items, fails) ==
    [t |-> "items", id |-> id, items |-> items, fails |-> fails]

IsAbsent(v) == v.t \in {"undef", "fn"}

(***************************************************************************)
(* Text.                                                                   *)
(***************************************************************************)
Quote == "\""
Backslash == "\\"
Newline == "\n"
Return == "\r"
Tab == "\t"
FormFeed == "\f"
\* the two bytes of the UTF-8 encoding of U+00E9
ByteC3 == "xC3"
ByteA9 == "xA9"
CharE9 == "U+00E9"
Replacement == "U+FFFD"

Digits == <<"0", "1", "2", "3", "4", "5", "6", "7", "8", "9">>
HexLower ==
    <<"0", "1", "2", "3", "4", "5", "6", "7", "8", "9", "a", "b", "c", "d", "e", "f">>
HexUpper ==
    <<"0", "1", "2", "3", "4", "5", "6", "7", "8", "9", "A", "B", "C", "D", "E", "F">>

\* the four hexadecimal digits of n
Hex4(n, hex) ==
    <<hex[((n \div 4096) % 16) + 1], hex[((n \div 256) % 16) + 1],
      hex[((n \div 16) % 16) + 1], hex[(n % 16) + 1]>>

\* the atom of the UTF-16 code unit n, for a character without a literal
CodeAtom(n) ==
    "U+" \o HexUpper[((n \div 4096) % 16) + 1] \o HexUpper[((n \div 256) % 16) + 1]
         \o HexUpper[((n \div 16) % 16) + 1] \o HexUpper[(n % 16) + 1]

\* the character U+0000 to U+001F of code n
ControlChar(n) ==
    CASE n = 9 -> Tab
      [] n = 10 -> Newline
      [] n = 12 -> FormFeed
      [] n = 13 -> Return
      [] OTHER -> CodeAtom(n)

Backspace == ControlChar(8)
Controls == {ControlChar(n) : n \in 0..31}
\* the code units U+D800 to U+DBFF and U+DC00 to U+DFFF
HighSurrogates == {CodeAtom(n) : n \in 55296..56319}
LowSurrogates == {CodeAtom(n) : n \in 56320..57343}

\* the code of a control character or a surrogate
CodeOf(c) ==
    IF c \in Controls THEN CHOOSE n \in 0..31 : ControlChar(n) = c
    ELSE CHOOSE n \in 55296..57343 : CodeAtom(n) = c

\* \uXXXX, in lower case
UnicodeEscape(n) == <<Backslash, "u">> \o Hex4(n, HexLower)

RECURSIVE Flatten(_)
Flatten(ss) == IF ss = <<>> THEN <<>> ELSE Head(ss) \o Flatten(Tail(ss))

\* Buffer.prototype.toString: UTF-8 decoding of one chunk on its own; a byte
\* that is not part of a complete sequence decodes to U+FFFD
RECURSIVE toString(_)
toString(bytes) ==
    IF bytes = <<>> THEN <<>>
    ELSE IF Head(bytes) = ByteC3 /\ Len(bytes) >= 2 /\ bytes[2] = ByteA9
         THEN <<CharE9>> \o toString(Tail(Tail(bytes)))
    ELSE IF Head(bytes) \in {ByteC3, ByteA9}
         THEN <<Replacement>> \o toString(Tail(bytes))
    ELSE <<Head(bytes)>> \o toString(Tail(bytes))

\* what JSON.stringify writes for the character c standing alone: its short
\* escape, \uXXXX for the other characters below U+0020 and for a surrogate
\* that has no partner, the character itself otherwise
EscapeChar(c) ==
    IF c = Quote THEN <<Backslash, Quote>>
    ELSE IF c = Backslash THEN <<Backslash, Backslash>>
    ELSE IF c = Backspace THEN <<Backslash, "b">>
    ELSE IF c = FormFeed THEN <<Backslash, "f">>
    ELSE IF c = Newline THEN <<Backslash, "n">>
    ELSE IF c = Return THEN <<Backslash, "r">>
    ELSE IF c = Tab THEN <<Backslash, "t">>
    ELSE IF c \in Controls \/ c \in HighSurrogates \/ c \in LowSurrogates
         THEN UnicodeEscape(CodeOf(c))
    ELSE <<c>>

\* s[i] is half of a surrogate pair: the two stand for one character
Paired(s, i) ==
    \/ s[i] \in HighSurrogates /\ i < Len(s) /\ s[i + 1] \in LowSurrogates
    \/ s[i] \in LowSurrogates /\ i > 1 /\ s[i - 1] \in HighSurrogates

\* JSON.stringify of a string: the quoted, escaped literal
QuoteString(s) ==
    <<Quote>>
    \o Flatten([i \in 1..Len(s) |->
                    IF Paired(s, i) THEN <<s[i]>> ELSE EscapeChar(s[i])])
    \o <<Quote>>

\* Number.prototype.toString of an integer
RECURSIVE NumStr(_)
NumStr(n) ==
    IF n < 0 THEN <<"-">> \o NumStr(-n)
    ELSE IF n < 10 THEN <<Digits[n + 1]>>
    ELSE NumStr(n \div 10) \o <<Digits[(n % 10) + 1]>>

(***************************************************************************)
(* Yields of the generators.  A generator is modelled by the sequence of   *)
(* its yields; each yield is a record:                                     *)
(*   frag     yield of a fragment s                                        *)
(*   undef    yield of undefined                                           *)
(*   promise  self.pMode = true; yield of promise id                       *)
(*   text     self.src = stream id (handlers registered); yield of s       *)
(*   items    self.src = new ObjectReader(stream id); yield of s           *)
(* The generators read nothing that changes between two yields, and the    *)
(* value next(x) sends in is the value of the promise yielded, so the      *)
(* sequence is fixed by the tree and the replacer; the generator's state   *)
(* is the yield it stands at.                                              *)
(***************************************************************************)
Ev(k, s, id) == [k |-> k, s |-> s, id |-> id]
Frag(s) == Ev("frag", s, 0)

\* yield JSON.stringify(value), for a value that is no array, promise,
\* stream or object
StringifyPrimitive(value) ==
    CASE value.t = "num" -> Frag(NumStr(value.n))
      [] value.t = "bool" -> Frag(IF value.b THEN <<"true">> ELSE <<"false">>)
      [] value.t = "str" -> Frag(QuoteString(value.s))
      [] value.t \in {"null", "nan", "inf"} -> Frag(<<"null">>)
      [] OTHER -> Ev("undef", <<>>, 0)

KeyIndex(value, key) ==
    IF \E i \in 1..Len(value.keys) : value.keys[i] = key
    THEN CHOOSE i \in 1..Len(value.keys) : value.keys[i] = key
    ELSE 0

ToJSONKey == <<"toJSON">>

\* a toJSON applied again to what toJSON returns
RECURSIVE toJSONDeep(_)
toJSONDeep(value) ==
    IF /\ value.t = "obj"
       /\ KeyIndex(value, ToJSONKey) # 0
       /\ value.vals[KeyIndex(value, ToJSONKey)].t = "fn"
    THEN toJSONDeep(value.vals[KeyIndex(value, ToJSONKey)].ret)
    ELSE value

toJSON(value) ==
    IF /\ value.t = "obj"
       /\ KeyIndex(value, ToJSONKey) # 0
       /\ value.vals[KeyIndex(value, ToJSONKey)].t = "fn"
    THEN value.vals[KeyIndex(value, ToJSONKey)].ret
    ELSE value

(***************************************************************************)
(* Replacers.                                                              *)
(***************************************************************************)
\* the constructor's default: function (_, value) { return value; }
DefaultReplacer == [kind |-> "fn", name |-> "identity", keys |-> {}]
FnReplacer(name) == [kind |-> "fn", name |-> name, keys |-> {}]
ArrayReplacer(keys) == [kind |-> "array", name |-> "", keys |-> keys]

\* the key a replacer gets for the container itself (undefined)
NoKey == <<"undefined">>

(***************************************************************************)
(* Conversions of the language, which 2 * value goes through.  The numbers *)
(* of the model are the integers written with at most MaxDigits digits,    *)
(* NaN and the infinities: the conversion of a numeric text with another   *)
(* value (a fraction, a larger magnitude) is left undefined, and so is     *)
(* that of an object with a valueOf or toString of its own.                *)
(***************************************************************************)
MaxDigits == 9

\* the characters ToNumber strips from both ends of a text: the white space
\* and the line terminators, by their atoms
WhiteSpace ==
    {" ", Tab, Newline, Return, FormFeed, "U+000B", "U+00A0", "U+1680",
     "U+2000", "U+2001", "U+2002", "U+2003", "U+2004", "U+2005", "U+2006",
     "U+2007", "U+2008", "U+2009", "U+200A", "U+2028", "U+2029", "U+202F",
     "U+205F", "U+3000", "U+FEFF"}

RECURSIVE TrimStart(_)
TrimStart(s) ==
    IF s # <<>> /\ Head(s) \in WhiteSpace THEN TrimStart(Tail(s)) ELSE s

RECURSIVE TrimEnd(_)
TrimEnd(s) ==
    IF s # <<>> /\ s[Len(s)] \in WhiteSpace
    THEN TrimEnd(SubSeq(s, 1, Len(s) - 1))
    ELSE s

IsDigit(c, base) == \E d \in 1..base : HexLower[d] = c \/ HexUpper[d] = c
DigitVal(c) == (CHOOSE d \in 1..16 : HexLower[d] = c \/ HexUpper[d] = c) - 1
AllDigits(q, base) == \A i \in 1..Len(q) : IsDigit(q[i], base)

RECURSIVE DigitsVal(_, _)
DigitsVal(q, base) ==
    IF q = <<>> THEN 0
    ELSE DigitsVal(SubSeq(q, 1, Len(q) - 1), base) * base + DigitVal(q[Len(q)])

RECURSIVE Significant(_)
\* digits without their leading zeros
Significant(q) ==
    IF q # <<>> /\ Head(q) = "0" THEN Significant(Tail(q)) ELSE q

RECURSIVE Pow(_, _)
Pow(base, k) == IF k = 0 THEN 1 ELSE base * Pow(base, k - 1)

\* the first position of q with a character of S, 0 if there is none
IndexOf(q, S) ==
    IF \E i \in 1..Len(q) : q[i] \in S
    THEN CHOOSE i \in 1..Len(q) :
            q[i] \in S /\ \A j \in 1..(i - 1) : q[j] \notin S
    ELSE 0

\* the part of q before position i, all of q if i is 0
Before(q, i) == IF i = 0 THEN q ELSE SubSeq(q, 1, i - 1)
\* the part of q after position i, nothing if i is 0
After(q, i) == IF i = 0 THEN <<>> ELSE SubSeq(q, i + 1, Len(q))

\* the value of significant digits scaled by a power of ten, where it is a
\* number of the model
DecimalValue(digits, exp) ==
    CASE digits = <<>> -> 0
      [] digits # <<>> /\ exp >= 0 /\ Len(digits) + exp <= MaxDigits ->
            DigitsVal(digits, 10) * Pow(10, exp)
      [] /\ digits # <<>> /\ exp < 0 /\ -exp < Len(digits)
         /\ Len(digits) + exp <= MaxDigits
         /\ \A i \in (Len(digits) + exp + 1)..Len(digits) : digits[i] = "0" ->
            DigitsVal(SubSeq(digits, 1, Len(digits) + exp), 10)

\* an unsigned decimal literal of integer digits ip and fraction digits fp,
\* with the exponent digits exDigits if hasEx
Decimal(neg, ip, fp, hasEx, exNeg, exDigits) ==
    IF /\ AllDigits(ip, 10)
       /\ AllDigits(fp, 10)
       /\ ip \o fp # <<>>
       /\ hasEx => (exDigits # <<>> /\ AllDigits(exDigits, 10))
    THEN Num((IF neg THEN -1 ELSE 1)
             * DecimalValue(Significant(ip \o fp),
                            (IF exNeg THEN -1 ELSE 1)
                            * DigitsVal(Significant(exDigits), 10) - Len(fp)))
    ELSE NaN

\* the mantissa split at its point, the exponent at its sign
DecimalParts(neg, mant, hasEx, ex) ==
    Decimal(neg,
            Before(mant, IndexOf(mant, {"."})),
            After(mant, IndexOf(mant, {"."})),
            hasEx,
            ex # <<>> /\ ex[1] = "-",
            IF ex # <<>> /\ ex[1] \in {"+", "-"} THEN Tail(ex) ELSE ex)

\* Infinity, or a decimal literal split at its exponent mark
StrDecimalLiteral(neg, u) ==
    IF u = <<"I", "n", "f", "i", "n", "i", "t", "y">> THEN Infinity(neg)
    ELSE DecimalParts(neg,
                      Before(u, IndexOf(u, {"e", "E"})),
                      IndexOf(u, {"e", "E"}) # 0,
                      After(u, IndexOf(u, {"e", "E"})))

\* the base a prefix character announces, 0 for another character
Radix(c) ==
    CASE c \in {"x", "X"} -> 16
      [] c \in {"o", "O"} -> 8
      [] c \in {"b", "B"} -> 2
      [] OTHER -> 0

\* 0x, 0o or 0b and digits of that base
Prefixed(t) ==
    /\ Len(t) > 2
    /\ t[1] = "0"
    /\ Radix(t[2]) # 0
    /\ AllDigits(SubSeq(t, 3, Len(t)), Radix(t[2]))

\* the value of the significant digits q in a base, where it is a number of
\* the model
PrefixedValue(q, base) ==
    CASE Len(q) * (CASE base = 16 -> 4 [] base = 8 -> 3 [] base = 2 -> 1)
            <= 3 * MaxDigits ->
        Num(DigitsVal(q, base))

\* a trimmed text as a numeric literal
StrNumericLiteral(t) ==
    IF t = <<>> THEN Num(0)
    ELSE IF Prefixed(t)
         THEN PrefixedValue(Significant(SubSeq(t, 3, Len(t))), Radix(t[2]))
    ELSE StrDecimalLiteral(t[1] = "-",
                           IF t[1] \in {"+", "-"} THEN Tail(t) ELSE t)

\* ToNumber of a text
StringToNumber(s) == StrNumericLiteral(TrimEnd(TrimStart(s)))

\* the source text of a function: no numeric text
FunctionText == "function source"

\* ToString of a value; an array is its elements joined by commas, null and
\* undefined among them as the empty text
RECURSIVE ToStr(_)
ToStr(v) ==
    CASE v.t = "str" -> v.s
      [] v.t = "num" -> NumStr(v.n)
      [] v.t = "nan" -> <<"N", "a", "N">>
      [] v.t = "inf" -> (IF v.neg THEN <<"-">> ELSE <<>>)
                        \o <<"I", "n", "f", "i", "n", "i", "t", "y">>
      [] v.t = "bool" -> IF v.b THEN <<"t", "r", "u", "e">>
                         ELSE <<"f", "a", "l", "s", "e">>
      [] v.t = "null" -> <<"n", "u", "l", "l">>
      [] v.t = "undef" -> <<"u", "n", "d", "e", "f", "i", "n", "e", "d">>
      [] v.t = "arr" ->
            Flatten([i \in 1..Len(v.items) |->
                (IF i > 1 THEN <<",">> ELSE <<>>)
                \o (IF v.items[i].t \in {"null", "undef"} THEN <<>>
                    ELSE ToStr(v.items[i]))])
      [] v.t = "fn" -> <<FunctionText>>
      [] v.t = "promise" ->
            <<"[", "o", "b", "j", "e", "c", "t", " ",
              "P", "r", "o", "m", "i", "s", "e", "]">>
      [] \/ v.t \in {"text", "items"}
         \/ /\ v.t = "obj"
            /\ \A i \in 1..Len(v.keys) :
                v.keys[i] \notin {<<"v", "a", "l", "u", "e", "O", "f">>,
                                  <<"t", "o", "S", "t", "r", "i", "n", "g">>} ->
            <<"[", "o", "b", "j", "e", "c", "t", " ",
              "O", "b", "j", "e", "c", "t", "]">>

\* ToNumber of a value
ToNumber(v) ==
    CASE v.t \in {"num", "nan", "inf"} -> v
      [] v.t = "undef" -> NaN
      [] v.t = "null" -> Num(0)
      [] v.t = "bool" -> Num(IF v.b THEN 1 ELSE 0)
      [] OTHER -> StringToNumber(ToStr(v))

\* 2 * value
Times2(value) ==
    LET n == ToNumber(value)
    IN  IF n.t = "num" THEN Num(2 * n.n) ELSE n

\* replacer.call(holder, key, value) for the function replacers of the model
Call(rep, key, value) ==
    CASE rep.name = "identity" -> value
      \* (key, value) => key ? 2 * value : value
      [] rep.name = "double" ->
            IF key = NoKey \/ key = <<>> THEN value ELSE Times2(value)
      \* (key, value) => key === 'b' ? undefined : value
      [] rep.name = "dropb" -> IF key = <<"b">> THEN Undef ELSE value
      \* (key, value) => key === undefined && value.a
      \*                 && value.a.constructor === Object ? value.a : value
      [] rep.name = "unwrap" ->
            IF /\ key = NoKey
               /\ value.t = "obj"
               /\ KeyIndex(value, <<"a">>) # 0
               /\ value.vals[KeyIndex(value, <<"a">>)].t = "obj"
            THEN value.vals[KeyIndex(value, <<"a">>)]
            ELSE value
      [] OTHER -> value

\* the indices at which keep holds, in order
KeepIdx(keep) ==
    LET f[i \in 0..Len(keep)] ==
            IF i = 0 THEN <<>>
            ELSE IF keep[i] THEN Append(f[i - 1], i) ELSE f[i - 1]
    IN  f[Len(keep)]

\* an arr that keeps undefined and functions
ReplacedArrayAsIs(value, rep) ==
    IF rep.kind = "fn"
    THEN LET a == Call(rep, NoKey, value).items
         IN  [i \in 1..Len(a) |-> Call(rep, NumStr(i - 1), a[i])]
    ELSE value.items

\* arrayGenerator's arr
ReplacedArray(value, rep) ==
    IF rep.kind = "fn"
    THEN LET a == Call(rep, NoKey, value).items
         IN  [i \in 1..Len(a) |->
                LET v == Call(rep, NumStr(i - 1), a[i])
                IN  IF IsAbsent(v) THEN Null ELSE v]
    ELSE [i \in 1..Len(value.items) |->
            IF IsAbsent(value.items[i]) THEN Null ELSE value.items[i]]

\* an obj that keeps the members as they were before the replacer's call
ReplacedObjectUnstored(value, rep) ==
    IF rep.kind = "fn"
    THEN LET o == Call(rep, NoKey, value)
             v(i) == Call(rep, o.keys[i], o.vals[i])
             kept == KeepIdx([i \in 1..Len(o.keys) |-> ~IsAbsent(v(i))])
         IN  Obj([j \in 1..Len(kept) |-> o.keys[kept[j]]],
                 [j \in 1..Len(kept) |-> o.vals[kept[j]]])
    ELSE LET kept == KeepIdx([i \in 1..Len(value.keys) |->
                                /\ ~IsAbsent(value.vals[i])
                                /\ value.keys[i] \in rep.keys])
         IN  Obj([j \in 1..Len(kept) |-> value.keys[kept[j]]],
                 [j \in 1..Len(kept) |-> value.vals[kept[j]]])

\* an obj the allowlist does not filter
ReplacedObjectAnyKey(value, rep) ==
    IF rep.kind = "fn"
    THEN LET o == Call(rep, NoKey, value)
             v(i) == Call(rep, o.keys[i], o.vals[i])
             kept == KeepIdx([i \in 1..Len(o.keys) |-> ~IsAbsent(v(i))])
         IN  Obj([j \in 1..Len(kept) |-> o.keys[kept[j]]],
                 [j \in 1..Len(kept) |-> v(kept[j])])
    ELSE LET kept == KeepIdx([i \in 1..Len(value.keys) |->
                                ~IsAbsent(value.vals[i])])
         IN  Obj([j \in 1..Len(kept) |-> value.keys[kept[j]]],
                 [j \in 1..Len(kept) |-> value.vals[kept[j]]])

\* objectGenerator's obj
ReplacedObject(value, rep) ==
    IF rep.kind = "fn"
    THEN LET o == Call(rep, NoKey, value)
             v(i) == Call(rep, o.keys[i], o.vals[i])
             kept == KeepIdx([i \in 1..Len(o.keys) |-> ~IsAbsent(v(i))])
         IN  Obj([j \in 1..Len(kept) |-> o.keys[kept[j]]],
                 [j \in 1..Len(kept) |-> v(kept[j])])
    ELSE LET kept == KeepIdx([i \in 1..Len(value.keys) |->
                                /\ ~IsAbsent(value.vals[i])
                                /\ value.keys[i] \in rep.keys])
         IN  Obj([j \in 1..Len(kept) |-> value.keys[kept[j]]],
                 [j \in 1..Len(kept) |-> value.vals[kept[j]]])

\* yield `"${keys[i]}":`
KeyLabel(key) == <<Quote>> \o key \o <<Quote, ":">>

RECURSIVE jsonGenerator(_, _)
RECURSIVE arrayGenerator(_, _)
RECURSIVE objectGenerator(_, _)

jsonGenerator(value, rep) ==
    IF value.t = "arr" THEN arrayGenerator(value, rep)
    ELSE IF value.t = "promise"
         THEN <<Ev("promise", <<>>, value.id)>> \o jsonGenerator(value.val, rep)
    ELSE IF value.t = "items"
         THEN <<Ev("items", <<"[">>, value.id), Frag(<<"]">>)>>
    ELSE IF value.t = "text"
         THEN <<Ev("text", <<Quote>>, value.id), Frag(<<Quote>>)>>
    ELSE IF value.t = "obj" THEN objectGenerator(value, rep)
    ELSE <<StringifyPrimitive(value)>>

arrayGenerator(value, rep) ==
    LET arr == ReplacedArray(value, rep)
    IN  <<Frag(<<"[">>)>>
        \o Flatten([i \in 1..Len(arr) |->
                jsonGenerator(toJSON(arr[i]), rep)
                \o (IF i # Len(arr) THEN <<Frag(<<",">>)>> ELSE <<>>)])
        \o <<Frag(<<"]">>)>>

objectGenerator(value, rep) ==
    LET obj == ReplacedObject(value, rep)
    IN  <<Frag(<<"{">>)>>
        \o Flatten([i \in 1..Len(obj.keys) |->
                <<Frag(KeyLabel(obj.keys[i]))>>
                \o jsonGenerator(toJSON(obj.vals[i]), rep)
                \o (IF i # Len(obj.keys) THEN <<Frag(<<",">>)>> ELSE <<>>)])
        \o <<Frag(<<"}">>)>>

(***************************************************************************)
(* ObjectReader (./object.reader, not among the sources): the adapter of   *)
(* an objectMode stream.  It emits, per item, the item's serialization     *)
(* under the same replacer, preceded by a comma from the second item on;   *)
(* an item that is undefined or a function is serialized as null.          *)
(***************************************************************************)
\* the text a generator without promises and streams yields in all
Joined(prog) == Flatten([i \in 1..Len(prog) |-> prog[i].s])

ObjectReaderItem(item, rep) ==
    IF IsAbsent(item) THEN <<"null">>
    ELSE Joined(jsonGenerator(toJSON(item), rep))

ObjectReader(items, rep) ==
    [i \in 1..Len(items) |->
        (IF i > 1 THEN <<",">> ELSE <<>>) \o ObjectReaderItem(items[i], rep)]

(***************************************************************************)
(* Inputs.                                                                 *)
(***************************************************************************)
Ids == {1, 2}

RECURSIVE Nodes(_)
Nodes(v) ==
    {v} \cup
    CASE v.t = "arr" -> UNION {Nodes(v.items[i]) : i \in 1..Len(v.items)}
      [] v.t = "obj" -> UNION {Nodes(v.vals[i]) : i \in 1..Len(v.vals)}
      [] v.t = "fn" -> Nodes(v.ret)
      [] v.t = "promise" -> Nodes(v.val)
      [] OTHER -> {}

RECURSIVE SeqsUpTo(_, _)
SeqsUpTo(S, n) ==
    IF n = 0 THEN {<<>>}
    ELSE SeqsUpTo(S, n - 1)
         \cup {Append(q, x) : q \in {r \in SeqsUpTo(S, n - 1) : Len(r) = n - 1}, x \in S}

KeyA == <<"a">>
KeyB == <<"b">>
\* a key with a character JSON escapes
KeyQ == <<"k", Quote>>

\* an object with a toJSON method and a key of its own
Hooked(result) == Obj(<<<<"own">>, ToJSONKey>>, <<Num(7), Fn(result)>>)

PromiseError(id) == [by |-> "promise", id |-> id]
StreamError(id) == [by |-> "stream", id |-> id]

\* a surrogate without a partner
LoneSurrogate == CodeAtom(55296)

Primitives ==
    {Num(1), Str(<<"a", Quote>>), Str(<<Backspace, LoneSurrogate>>), Bool(TRUE),
     Null, NaN, Undef, Fn(Undef)}

\* objects within an array within an object within an array
Nested ==
    Arr(<<Obj(<<KeyB, KeyQ, KeyA>>,
              <<Num(1), Num(2),
                Arr(<<Obj(<<KeyA, KeyB>>, <<Undef, Num(1)>>), Undef>>)>>)>>)

\* an object whose toJSON returns an object with a toJSON of its own
HookedTwice ==
    Obj(<<<<"outer">>, ToJSONKey>>,
        <<Num(8), Fn(Hooked(Obj(<<KeyA>>, <<Num(1)>>)))>>)

Plain ==
    {Nested, HookedTwice, Arr(<<>>), Arr(<<Num(1), Undef>>), Obj(<<>>, <<>>),
     Obj(<<KeyA, KeyB>>, <<Num(1), Fn(Undef)>>),
     Obj(<<KeyA, KeyB>>, <<Obj(<<KeyB, KeyA>>, <<Num(2), Num(3)>>), Arr(<<Null>>)>>),
     Obj(<<KeyA, KeyB>>, <<Str(<<" ", "1", "2">>), Arr(<<Arr(<<>>)>>)>>),
     Hooked(Obj(<<KeyA>>, <<Num(1)>>)), Hooked(Undef)}

Chunks ==
    {<<"a", Quote>>, <<ByteC3>>, <<ByteA9, Newline>>,
     <<Return, Tab, FormFeed, ControlChar(1)>>}
ItemValues == {Num(1), Undef, Obj(<<KeyA, KeyB>>, <<Num(1), Num(2)>>)}

Resolutions ==
    {Str(<<"a", "b", "c">>), Undef, Hooked(Obj(<<KeyA>>, <<Num(1)>>)),
     Arr(<<Num(1)>>)}

Promises(id) ==
    {Promise(id, TRUE, r, PromiseError(id)) : r \in Resolutions}
    \cup {Promise(id, FALSE, Undef, PromiseError(id))}

Texts(id) ==
    {Text(id, c, f) : c \in SeqsUpTo(Chunks, MaxChunks), f \in BOOLEAN}

ItemStreams(id) ==
    {Items(id, c, f) : c \in SeqsUpTo(ItemValues, MaxItems), f \in BOOLEAN}

\* every kind of member, in full variety
Members(id) ==
    Primitives \cup Plain \cup Promises(id) \cup Texts(id) \cup ItemStreams(id)

\* one or two of every kind, for the roots with two members
Few(id) ==
    {Num(1), Undef, Hooked(Obj(<<KeyA>>, <<Num(1)>>)),
     Promise(id, TRUE, Str(<<"a", "b", "c">>), PromiseError(id)),
     Promise(id, TRUE, Undef, PromiseError(id)),
     Promise(id, FALSE, Undef, PromiseError(id)),
     Text(id, <<<<"a", Quote>>, <<"b">>>>, FALSE),
     Text(id, <<<<"a">>>>, TRUE),
     Items(id, <<Num(1), Undef>>, FALSE)}

\* streams that end without a chunk or an item, with siblings after them
EmptyStreams ==
    {Arr(<<Text(1, <<>>, FALSE), Items(2, <<>>, FALSE), Num(1)>>),
     Obj(<<KeyA, KeyB>>, <<Items(1, <<>>, FALSE), Text(2, <<>>, FALSE)>>)}

Roots ==
    Members(1)
    \cup EmptyStreams
    \cup {Arr(<<m>>) : m \in Members(1)}
    \cup {Obj(<<KeyQ>>, <<m>>) : m \in Members(1)}
    \cup {Arr(<<m, n>>) : m \in Few(1), n \in Few(2)}
    \cup {Obj(<<KeyA, KeyB>>, <<m, n>>) : m \in Few(1), n \in Few(2)}
    \cup {Promise(1, TRUE, Text(2, <<<<"a">>>>, FALSE), PromiseError(1)),
          Promise(1, TRUE, Arr(<<Promise(2, TRUE, Num(1), PromiseError(2))>>),
                  PromiseError(1))}

Replacers ==
    {DefaultReplacer, ArrayReplacer({KeyA, KeyQ}), FnReplacer("double"),
     FnReplacer("dropb"), FnReplacer("unwrap")}

(***************************************************************************)
(* State.                                                                  *)
(***************************************************************************)
VARIABLES
    root,          \* the constructor's obj
    replacer,      \* the constructor's replacer, after defaulting
    jsonIterator,  \* the generator: its yields and the yield it stands at
    src,           \* self.src: the id of the bound stream, 0 for null
    pMode,         \* self.pMode
    streams,       \* the streams of the tree, by id
    promises,      \* the promises of the tree, by id
    waiting,       \* promises whose then and catch callbacks are registered
    out,           \* the fragments pushed, in order
    ended,         \* the number of push(null)
    errors,        \* the errors emitted, in order
    pulses,        \* the number of _read calls the Readable made
    reading,       \* the Readable's state.reading
    destroyed      \* the Readable's state.destroyed

vars == <<root, replacer, jsonIterator, src, pMode, streams, promises, waiting,
          out, ended, errors, pulses, reading, destroyed>>

StreamNode(v, id) ==
    IF \E n \in Nodes(v) : n.t \in {"text", "items"} /\ n.id = id
    THEN CHOOSE n \in Nodes(v) : n.t \in {"text", "items"} /\ n.id = id
    ELSE Undef

PromiseNode(v, id) ==
    IF \E n \in Nodes(v) : n.t = "promise" /\ n.id = id
    THEN CHOOSE n \in Nodes(v) : n.t = "promise" /\ n.id = id
    ELSE Undef

NoStream ==
    [mode |-> "none", left |-> <<>>, flowing |-> FALSE, endSched |-> FALSE,
     st |-> "none", listeners |-> 0, handlers |-> FALSE, fails |-> FALSE]

StreamInit(v, rep, id) ==
    LET n == StreamNode(v, id)
    IN  IF n = Undef THEN NoStream
        ELSE [NoStream EXCEPT
                !.mode = IF n.t = "items" THEN "obj" ELSE "text",
                !.left = IF n.t = "items" THEN ObjectReader(n.items, rep)
                         ELSE n.chunks,
                !.st = "open",
                !.fails = n.fails]

PromiseInit(v, id) ==
    LET n == PromiseNode(v, id)
    IN  IF n = Undef THEN [st |-> "none", ok |-> TRUE, nth |-> 0]
        ELSE [st |-> "pending", ok |-> n.ok, nth |-> 0]

Init ==
    /\ root \in Roots
    /\ replacer \in Replacers
    /\ jsonIterator = [prog |-> jsonGenerator(toJSON(root), replacer), pc |-> 0]
    /\ src = 0
    /\ pMode = FALSE
    /\ streams = [id \in Ids |-> StreamInit(root, replacer, id)]
    /\ promises = [id \in Ids |-> PromiseInit(root, id)]
    /\ waiting = {}
    /\ out = <<>>
    /\ ended = 0
    /\ errors = <<>>
    /\ pulses = 0
    /\ reading = FALSE
    /\ destroyed = FALSE

(***************************************************************************)
(* The generator and _read.                                                *)
(***************************************************************************)
\* a generator that leaves pMode set when it is resumed at a promise's yield
IteratorNextModeKept(it, pm, s) ==
    LET n == it.pc + 1
        done == n > Len(it.prog)
        ev == IF done THEN Ev("undef", <<>>, 0) ELSE it.prog[n]
    IN  [pc |-> IF done THEN Len(it.prog) + 1 ELSE n,
         done |-> done,
         ev |-> ev,
         pMode |-> IF ev.k = "promise" THEN TRUE ELSE pm,
         src |-> IF ev.k \in {"text", "items"} THEN ev.id ELSE s]

\* jsonIterator.next(): the generator runs from the yield it stands at to its
\* next yield.  Leaving a promise's yield it clears pMode, reaching one it
\* sets pMode, reaching a stream's first yield it has bound the stream.
IteratorNext(it, pm, s) ==
    LET n == it.pc + 1
        done == n > Len(it.prog)
        ev == IF done THEN Ev("undef", <<>>, 0) ELSE it.prog[n]
        left == it.pc >= 1 /\ it.pc <= Len(it.prog) /\ it.prog[it.pc].k = "promise"
    IN  [pc |-> IF done THEN Len(it.prog) + 1 ELSE n,
         done |-> done,
         ev |-> ev,
         pMode |-> IF ev.k = "promise" THEN TRUE
                   ELSE IF left THEN FALSE ELSE pm,
         src |-> IF ev.k \in {"text", "items"} THEN ev.id ELSE s]

\* a stream reached and bound without its handlers
BindNone(strm, ev) == strm

\* the once('end') and once('error') handlers a reached stream gets
Bind(strm, ev) ==
    IF ev.k \in {"text", "items"}
    THEN [strm EXCEPT ![ev.id].handlers = TRUE]
    ELSE strm

\* state.reading after this.push(chunk): a destroyed Readable drops a chunk
\* that is not empty and stays as it was, otherwise it is no longer reading
AfterPush(chunk) == IF destroyed /\ chunk # <<>> THEN reading ELSE FALSE

\* this.push(chunk); out records the chunk handed to push
push(chunk) ==
    /\ out' = Append(out, chunk)
    /\ reading' = AfterPush(chunk)
    /\ UNCHANGED <<ended, destroyed>>

\* this.push(null): the output is at its end and the Readable is no longer
\* reading
pushNull ==
    /\ ended' = ended + 1
    /\ reading' = FALSE
    /\ UNCHANGED <<out, destroyed>>

\* _read() with a stream bound: this.src.resume(); this.src.once('data', ...)
Resume(s, strm, rd) ==
    /\ streams' = [strm EXCEPT ![s].flowing = TRUE, ![s].listeners = @ + 1]
    /\ src' = s
    /\ reading' = rd
    /\ UNCHANGED <<jsonIterator, pMode, waiting, out, ended, destroyed>>

\* _read() with no stream bound: the generator's next yield decides
Advance(s, strm, rd) ==
    LET g == IteratorNext(jsonIterator, pMode, s)
    IN  /\ jsonIterator' = [jsonIterator EXCEPT !.pc = g.pc]
        /\ pMode' = g.pMode
        /\ src' = g.src
        /\ streams' = Bind(strm, g.ev)
        /\ IF g.done THEN pushNull /\ UNCHANGED waiting
           ELSE IF g.ev.k = "undef" THEN push(<<>>) /\ UNCHANGED waiting
           ELSE IF g.pMode
           THEN \* value.then(...).catch(...)
                /\ waiting' = waiting \cup {g.ev.id}
                /\ reading' = rd
                /\ UNCHANGED <<out, ended, destroyed>>
           ELSE push(g.ev.s) /\ UNCHANGED waiting

\* a _read() that does not look at this.src
ReadUnbound(s, strm, rd) == Advance(0, strm, rd)

\* _read(), with s for this.src, strm for the streams and rd for state.reading
\* as the caller left them
_read(s, strm, rd) ==
    IF s # 0 THEN Resume(s, strm, rd) ELSE Advance(s, strm, rd)

\* the Readable calls _read: it does so only while it is not reading, has
\* not been given the end of the output and is not destroyed
Demand ==
    /\ ~reading
    /\ ended = 0
    /\ ~destroyed
    /\ pulses' = pulses + 1
    /\ _read(src, streams, TRUE)
    /\ UNCHANGED <<root, replacer, promises, errors>>

(***************************************************************************)
(* Streams.  A stream emits 'data' only while flowing, 'end' after its     *)
(* last chunk, and 'error' at most once; after 'end' it emits nothing.  A  *)
(* stream that emitted 'error' may emit nothing more (it was destroyed) or *)
(* go on to 'data' and 'end' (it was not).  Events of a stream not yet     *)
(* reached have no listener.                                               *)
(***************************************************************************)
\* a listener that escapes the ObjectReader's fragments too
DataFragmentEscaped(s, strm, x) ==
    LET q == QuoteString(toString(x))
    IN  SubSeq(q, 2, Len(q) - 1)

\* what the 'data' listener pushes for chunk x
DataFragment(s, strm, x) ==
    IF strm[s].mode = "obj" THEN x
    ELSE LET q == QuoteString(toString(x))
         IN  SubSeq(q, 2, Len(q) - 1)

\* a flowing stream emits 'data': every once('data') listener runs, pausing
\* this.src and pushing.  With the last chunk read the stream may already
\* know its end, and then emits 'end' paused or not.  A stream that emitted
\* 'error' without being destroyed still emits 'data'.
Data(id) ==
    /\ streams[id].st \in {"open", "failed"}
    /\ streams[id].flowing
    /\ streams[id].listeners > 0
    /\ streams[id].left # <<>>
    /\ src # 0
    /\ \E known \in BOOLEAN :
         streams' = [streams EXCEPT
            ![id].left = Tail(@),
            ![id].listeners = 0,
            ![id].endSched = known /\ Len(streams[id].left) = 1,
            ![src].flowing = FALSE]
    /\ out' = out \o [i \in 1..streams[id].listeners |->
                        DataFragment(src, streams, Head(streams[id].left))]
    /\ reading' = AfterPush(DataFragment(src, streams, Head(streams[id].left)))
    /\ UNCHANGED <<root, replacer, destroyed, jsonIterator, src, pMode, promises, waiting,
                   ended, errors, pulses>>

\* an 'end' handler that unbinds the stream and does not call _read
EndUnbindOnly(id) ==
    /\ streams[id].st \in {"open", "failed"}
    /\ streams[id].handlers
    /\ streams[id].left = <<>>
    /\ streams[id].flowing \/ streams[id].endSched
    /\ streams' = [streams EXCEPT ![id].st = "ended"]
    /\ src' = 0
    /\ UNCHANGED <<root, replacer, destroyed, jsonIterator, pMode, promises, waiting, out,
                   ended, errors, pulses, reading>>

\* an 'end' handler that calls _read before it clears this.src
EndReadFirst(id) ==
    /\ streams[id].st \in {"open", "failed"}
    /\ streams[id].handlers
    /\ streams[id].left = <<>>
    /\ streams[id].flowing \/ streams[id].endSched
    /\ streams' = [streams EXCEPT ![id].st = "ended", ![id].flowing = TRUE,
                                  ![id].listeners = @ + 1]
    /\ src' = 0
    /\ UNCHANGED <<root, replacer, destroyed, jsonIterator, pMode, promises,
                   waiting, out, ended, errors, pulses, reading>>

\* the stream emits 'end': self.src = null; self._read().  A stream that
\* emitted 'error' without being destroyed still emits 'end'.
End(id) ==
    /\ streams[id].st \in {"open", "failed"}
    /\ streams[id].handlers
    /\ streams[id].left = <<>>
    /\ streams[id].flowing \/ streams[id].endSched
    /\ _read(0, [streams EXCEPT ![id].st = "ended"], reading)
    /\ UNCHANGED <<root, replacer, promises, errors, pulses>>

\* the stream emits 'error', once: self.emit('error', err).  this.src and
\* the listeners on the stream stay as they are.
Error(id) ==
    /\ streams[id].st = "open"
    /\ streams[id].handlers
    /\ streams[id].fails
    /\ streams' = [streams EXCEPT ![id].st = "failed"]
    /\ errors' = Append(errors, StreamError(id))
    /\ UNCHANGED <<root, replacer, destroyed, jsonIterator, src, pMode, promises, waiting,
                   out, ended, pulses, reading>>

(***************************************************************************)
(* Promises.                                                               *)
(***************************************************************************)
\* a promise of the tree settles; nth records the order of settling
Settle(id) ==
    /\ promises[id].st = "pending"
    /\ promises' = [promises EXCEPT
            ![id].st = IF promises[id].ok THEN "resolved" ELSE "rejected",
            ![id].nth = 1 + Cardinality({i \in Ids : promises[i].nth > 0})]
    /\ UNCHANGED <<root, replacer, destroyed, jsonIterator, src, pMode, streams, waiting,
                   out, ended, errors, pulses, reading>>

\* the then callback: push(this.jsonIterator.next(x).value); a value of
\* undefined is pushed as it is, which delivers nothing
Then(id) ==
    /\ id \in waiting
    /\ promises[id].st = "resolved"
    /\ LET g == IteratorNext(jsonIterator, pMode, src)
       IN  /\ jsonIterator' = [jsonIterator EXCEPT !.pc = g.pc]
           /\ pMode' = g.pMode
           /\ src' = g.src
           /\ streams' = Bind(streams, g.ev)
           /\ push(g.ev.s)
    /\ waiting' = waiting \ {id}
    /\ UNCHANGED <<root, replacer, promises, errors, pulses>>

\* the catch callback: this.emit('error', err)
Catch(id) ==
    /\ id \in waiting
    /\ promises[id].st = "rejected"
    /\ errors' = Append(errors, PromiseError(id))
    /\ waiting' = waiting \ {id}
    /\ UNCHANGED <<root, replacer, destroyed, jsonIterator, src, pMode, streams, promises,
                   out, ended, pulses, reading>>

\* the consumer has taken all that was delivered: the Readable emits 'end'
\* and, built by super() with autoDestroy, destroys itself, in a later tick
\* than the push(null)
AutoDestroy ==
    /\ ended > 0
    /\ ~destroyed
    /\ destroyed' = TRUE
    /\ UNCHANGED <<root, replacer, jsonIterator, src, pMode, streams, promises,
                   waiting, out, ended, errors, pulses, reading>>

Next ==
    \/ Demand
    \/ AutoDestroy
    \/ \E id \in Ids : Data(id)
    \/ \E id \in Ids : End(id)
    \/ \E id \in Ids : Error(id)
    \/ \E id \in Ids : Settle(id)
    \/ \E id \in Ids : Then(id)
    \/ \E id \in Ids : Catch(id)

Spec == Init /\ [][Next]_vars

(***************************************************************************)
(* Teardown.  JStream defines no _destroy: destroy(), which the consumer   *)
(* calls or a pipeline calls for it, is the Readable's own and marks the   *)
(* stream destroyed; it knows nothing of this.src, of the listeners put on *)
(* it or of the promise callbacks.                                         *)
(***************************************************************************)
Destroy ==
    /\ ~destroyed
    /\ destroyed' = TRUE
    /\ UNCHANGED <<root, replacer, jsonIterator, src, pMode, streams, promises,
                   waiting, out, ended, errors, pulses, reading>>

TeardownNext == Next \/ Destroy

TeardownSpec == Init /\ [][TeardownNext]_vars

(***************************************************************************)
(* Reference definitions the properties are stated with.                   *)
(***************************************************************************)
\* the text delivered so far
Delivered == Flatten(out)

\* texts joined by commas
RECURSIVE Join(_)
Join(ts) ==
    IF ts = <<>> THEN <<>>
    ELSE IF Len(ts) = 1 THEN ts[1]
    ELSE ts[1] \o <<",">> \o Join(Tail(ts))

\* JSON.stringify(value) of the standard, without replacer; the empty text
\* where the standard gives undefined
RECURSIVE Stringify(_)
Stringify(value) ==
    LET v == toJSON(value)
    IN  CASE v.t = "arr" ->
               <<"[">>
               \o Join([i \in 1..Len(v.items) |->
                     IF IsAbsent(toJSON(v.items[i])) THEN <<"null">>
                     ELSE Stringify(v.items[i])])
               \o <<"]">>
          [] v.t = "obj" ->
               LET kept == KeepIdx([i \in 1..Len(v.keys) |->
                                        ~IsAbsent(toJSON(v.vals[i]))])
               IN  <<"{">>
                   \o Join([j \in 1..Len(kept) |->
                         QuoteString(v.keys[kept[j]]) \o <<":">>
                         \o Stringify(v.vals[kept[j]])])
                   \o <<"}">>
          [] OTHER -> StringifyPrimitive(v).s

\* primitives, arrays and objects only, and no toJSON
IsPlain(value) ==
    \A n \in Nodes(value) :
        /\ n.t \notin {"promise", "text", "items"}
        /\ n.t = "obj" => KeyIndex(n, ToJSONKey) = 0

\* the text of a whole stream as _read forwards it
StreamText(node, rep) ==
    IF node.t = "text"
    THEN Flatten([i \in 1..Len(node.chunks) |->
            LET q == QuoteString(toString(node.chunks[i]))
            IN  SubSeq(q, 2, Len(q) - 1)])
    ELSE Flatten(ObjectReader(node.items, rep))

\* the yields of a generator in order, each stream's text at its yield
Inline(prog, tree, rep) ==
    Flatten([i \in 1..Len(prog) |->
        prog[i].s
        \o (IF prog[i].k \in {"text", "items"}
            THEN StreamText(StreamNode(tree, prog[i].id), rep)
            ELSE <<>>)])

\* the tree with every promise replaced by the value it resolves to
RECURSIVE Resolved(_)
Resolved(v) ==
    CASE v.t = "promise" -> Resolved(v.val)
      [] v.t = "arr" -> Arr([i \in 1..Len(v.items) |-> Resolved(v.items[i])])
      [] v.t = "obj" ->
            Obj(v.keys, [i \in 1..Len(v.vals) |-> Resolved(v.vals[i])])
      [] OTHER -> v

(***************************************************************************)
(* C1: for a root of primitives, arrays and objects only (no toJSON) and   *)
(* the default replacer, once the end of the output is pushed the text     *)
(* delivered is JSON.stringify(root), whatever the keys.                   *)
(***************************************************************************)
C1_StringifyEqual ==
    (ended > 0 /\ IsPlain(root) /\ replacer = DefaultReplacer)
        => Delivered = Stringify(root)

\* the same for the roots whose keys need no escaping (holds)
C1_SafeKeys ==
    (/\ ended > 0 /\ IsPlain(root) /\ replacer = DefaultReplacer
     /\ \A n \in Nodes(root) : n.t = "obj" =>
            \A i \in 1..Len(n.keys) : Quote \notin {n.keys[i][j] : j \in 1..Len(n.keys[i])})
        => Delivered = Stringify(root)

(***************************************************************************)
(* C2: with several promises and streams among the members, the text       *)
(* delivered at the end of the output is fixed by the tree alone, whatever *)
(* the order of the settling and data events, and holds every member's     *)
(* text at the member's place in the array or object.                      *)
(***************************************************************************)
MemberText(value, rep) == Inline(jsonGenerator(toJSON(value), rep), root, rep)

InPlace(value, rep) ==
    CASE value.t = "arr" ->
            LET arr == ReplacedArray(value, rep)
            IN  <<"[">>
                \o Join([i \in 1..Len(arr) |-> MemberText(arr[i], rep)])
                \o <<"]">>
      [] value.t = "obj" ->
            LET obj == ReplacedObject(value, rep)
            IN  <<"{">>
                \o Join([i \in 1..Len(obj.keys) |->
                        KeyLabel(obj.keys[i]) \o MemberText(obj.vals[i], rep)])
                \o <<"}">>
      [] OTHER -> Inline(jsonGenerator(value, rep), root, rep)

C2_StructuralOrder == ended > 0 => Delivered = InPlace(toJSON(root), replacer)

\* two promises, the second settled first, and the output complete
C2_Witness ==
    /\ ended > 0
    /\ root.t = "arr"
    /\ Len(root.items) = 2
    /\ root.items[1].t = "promise"
    /\ root.items[2].t = "promise"
    /\ replacer = DefaultReplacer
    /\ promises[2].nth = 1
    /\ promises[1].nth = 2

(***************************************************************************)
(* C3: the pushes (fragments and the end of the output) never outnumber    *)
(* the _read calls the Readable has made.  Stated for the trees without    *)
(* objectMode streams.                                                     *)
(***************************************************************************)
C3_PushesWithinDemand ==
    (\A n \in Nodes(root) : n.t # "items") => Len(out) + ended <= pulses

(***************************************************************************)
(* C4: if no promise of the tree rejects and no stream of it fails, and    *)
(* the Readable keeps calling _read, the end of the output is pushed.      *)
(***************************************************************************)
AllSettle ==
    \A n \in Nodes(root) :
        /\ n.t = "promise" => n.ok
        /\ n.t \in {"text", "items"} => ~n.fails

\* _read is called while the Readable is not reading; a flowing stream that
\* has not failed delivers what it has and then ends; a promise settles and
\* its callbacks run
Fairness ==
    /\ WF_vars(Demand)
    /\ \A id \in Ids :
        /\ WF_vars(streams[id].st = "open" /\ Data(id))
        /\ WF_vars(streams[id].st = "open" /\ End(id))
        /\ WF_vars(Settle(id))
        /\ WF_vars(Then(id))
        /\ WF_vars(Catch(id))

FairSpec == Spec /\ Fairness

C4_Completes == AllSettle => <>(ended > 0)

\* a stream ended, a promise resolved, and the output complete
C4_Witness ==
    /\ AllSettle
    /\ ended > 0
    /\ \E id \in Ids : streams[id].st = "ended"
    /\ \E id \in Ids : promises[id].st = "resolved"

(***************************************************************************)
(* C5: a rejection of the promise the generator stands at, or a failure of *)
(* the bound stream, is emitted as the error, with that failure; an error  *)
(* emitted is the failure of that promise or stream; the step emitting it  *)
(* and every later step push nothing.                                      *)
(***************************************************************************)
AtPromise(id) ==
    /\ jsonIterator.pc >= 1
    /\ jsonIterator.pc <= Len(jsonIterator.prog)
    /\ jsonIterator.prog[jsonIterator.pc].k = "promise"
    /\ jsonIterator.prog[jsonIterator.pc].id = id

\* e is among the errors emitted
Emitted(e) == \E i \in 1..Len(errors) : errors[i] = e

\* every error emitted is the failure of a stream that was bound or of a
\* promise the generator stood at, and every such failure is emitted
ErrorIsFailure ==
    /\ \A id \in Ids : streams[id].st = "failed" => Emitted(StreamError(id))
    /\ \A id \in Ids :
        (AtPromise(id) /\ promises[id].st = "rejected" /\ id \notin waiting)
            => Emitted(PromiseError(id))
    /\ \A i \in 1..Len(errors) :
        \E id \in Ids :
            \/ errors[i] = StreamError(id) /\ streams[id].fails
               /\ streams[id].handlers
            \/ errors[i] = PromiseError(id) /\ promises[id].st = "rejected"
               /\ AtPromise(id)

NothingAfterError ==
    (errors # <<>> \/ errors' # <<>>) => (out' = out /\ ended' = ended /\ ended = 0)

\* C5: the error carries the failure, and nothing is pushed with it or after
C5_ErrorAborts == []ErrorIsFailure /\ [][NothingAfterError]_vars

\* a stream that has emitted its error emits nothing in this step
SilentOnceFailed ==
    \A id \in Ids :
        Emitted(StreamError(id)) =>
            /\ streams[id].st = "failed"
            /\ streams'[id].st = "failed"
            /\ streams'[id].left = streams[id].left

\* C5 where a failed stream emits nothing more: the error aborts
C5_ErrorAbortsSilentSource ==
    []ErrorIsFailure /\ [][SilentOnceFailed => NothingAfterError]_vars

(***************************************************************************)
(* C6: the end of the output is pushed at most once, an error is emitted   *)
(* at most once, never both, and no fragment is pushed after either.       *)
(***************************************************************************)
AtMostOnce ==
    /\ ended <= 1
    /\ Len(errors) <= 1
    /\ ~(ended > 0 /\ errors # <<>>)

Terminal == (ended > 0 \/ errors # <<>>) => out' = out

C6_TerminalSignals == []AtMostOnce /\ [][Terminal]_vars

\* the end of the output is pushed at most once and nothing is pushed after it
EndIsLast == [](ended <= 1) /\ [][ended > 0 => out' = out]_vars

\* C6 where a failed stream emits nothing more
C6_TerminalSilentSource ==
    /\ []((\A id \in Ids : Emitted(StreamError(id)) => streams[id].st = "failed")
            => AtMostOnce)
    /\ [][SilentOnceFailed => Terminal]_vars

(***************************************************************************)
(* C7: a text stream with chunks c1..cn, as the root or the one element of *)
(* an array, is delivered as the JSON string of the concatenation c1..cn.  *)
(***************************************************************************)
TextLiteral(node) == QuoteString(toString(Flatten(node.chunks)))

C7_TextIsOneString ==
    /\ (ended > 0 /\ root.t = "text") => Delivered = TextLiteral(root)
    /\ (/\ ended > 0 /\ root.t = "arr" /\ Len(root.items) = 1
        /\ root.items[1].t = "text" /\ replacer = DefaultReplacer)
            => Delivered = <<"[">> \o TextLiteral(root.items[1]) \o <<"]">>

\* the same for the streams none of whose chunks ends within a character
WholeChunks(node) ==
    \A i \in 1..Len(node.chunks) :
        toString(node.chunks[i]) \o toString(Flatten(SubSeq(node.chunks, i + 1, Len(node.chunks))))
            = toString(Flatten(SubSeq(node.chunks, i, Len(node.chunks))))

C7_WholeChunks ==
    (ended > 0 /\ root.t = "text" /\ WholeChunks(root))
        => Delivered = TextLiteral(root)

(***************************************************************************)
(* C8: an objectMode stream with items i1..in, as the root or the one      *)
(* element of an array, is delivered as '[', then the adapter's fragments  *)
(* unchanged, then ']', the ']' only after the adapter's end; the text is  *)
(* the items' serializations under the same replacer, joined by commas.    *)
(***************************************************************************)
ItemFragments(node, rep) == <<<<"[">>>> \o ObjectReader(node.items, rep) \o <<<<"]">>>>

ItemsText(node, rep) ==
    <<"[">>
    \o Join([i \in 1..Len(node.items) |-> ObjectReaderItem(node.items[i], rep)])
    \o <<"]">>

IsPrefix(a, b) == Len(a) <= Len(b) /\ a = SubSeq(b, 1, Len(a))

C8_ItemsAreOneArray ==
    /\ root.t = "items" =>
        /\ IsPrefix(out, ItemFragments(root, replacer))
        /\ out = ItemFragments(root, replacer) => streams[root.id].st = "ended"
        /\ ended > 0 =>
            /\ out = ItemFragments(root, replacer)
            /\ Delivered = ItemsText(root, replacer)
    /\ (/\ root.t = "arr" /\ Len(root.items) = 1 /\ root.items[1].t = "items"
        /\ replacer.name # "double" /\ ended > 0)
            => Delivered = <<"[">> \o ItemsText(root.items[1], replacer) \o <<"]">>
    /\ (/\ root.t = "obj" /\ Len(root.vals) = 1 /\ root.vals[1].t = "items"
        /\ replacer = DefaultReplacer /\ ended > 0)
            => Delivered = <<"{">> \o KeyLabel(root.keys[1])
                           \o ItemsText(root.vals[1], replacer) \o <<"}">>

\* an objectMode stream of two items, one an object, delivered and ended
C8_Witness ==
    /\ root.t = "items"
    /\ Len(root.items) = 2
    /\ root.items[2].t = "obj"
    /\ ended > 0

(***************************************************************************)
(* C9: with every promise of the tree resolved, the text delivered is the  *)
(* text delivered for the tree that holds, in each promise's place, the    *)
(* value the promise resolves to.                                          *)
(***************************************************************************)
C9_ResolvedInPlace ==
    (ended > 0 /\ \E n \in Nodes(root) : n.t = "promise")
        => Delivered = Inline(jsonGenerator(toJSON(Resolved(root)), replacer),
                              root, replacer)

(***************************************************************************)
(* C10: undefined or a function is delivered as nothing when it is the     *)
(* root, as null when it is an element of an array, and not at all, with   *)
(* its key, when it is a member of an object.  Stated for the replacers    *)
(* that return such a value as it is, and for members that are primitives. *)
(***************************************************************************)
AllPrimitive(vals) == \A i \in 1..Len(vals) : vals[i] \in Primitives

KeyPasses(rep, key) ==
    IF rep.kind = "array" THEN key \in rep.keys
    ELSE ~(rep.name = "dropb" /\ key = KeyB)

AbsentRule(value, rep) ==
    CASE value.t = "arr" ->
            <<"[">>
            \o Join([i \in 1..Len(value.items) |->
                    IF IsAbsent(value.items[i]) THEN <<"null">>
                    ELSE StringifyPrimitive(value.items[i]).s])
            \o <<"]">>
      [] value.t = "obj" ->
            LET kept == KeepIdx([i \in 1..Len(value.keys) |->
                                    /\ ~IsAbsent(value.vals[i])
                                    /\ KeyPasses(rep, value.keys[i])])
            IN  <<"{">>
                \o Join([j \in 1..Len(kept) |->
                        KeyLabel(value.keys[kept[j]])
                        \o StringifyPrimitive(value.vals[kept[j]]).s])
                \o <<"}">>
      [] OTHER -> <<>>

C10_AbsentValues ==
    (ended > 0 /\ replacer.name # "double") =>
        /\ IsAbsent(root) => (out = <<<<>>>> /\ ended = 1)
        /\ (root.t = "arr" /\ AllPrimitive(root.items))
                => Delivered = AbsentRule(root, replacer)
        /\ (root.t = "obj" /\ AllPrimitive(root.vals))
                => Delivered = AbsentRule(root, replacer)

\* an array with an undefined element, delivered
C10_Witness ==
    /\ ended > 0
    /\ root = Arr(<<Num(1), Undef>>)
    /\ replacer = DefaultReplacer
    /\ Delivered = <<"[", "1", ",", "null", "]">>

(***************************************************************************)
(* JSON texts.  ValueEnd(t, i) is the position after the JSON value that   *)
(* starts at t[i], and 0 if none starts there.                             *)
(***************************************************************************)
RECURSIVE StringEnd(_, _)
\* j is within a string literal, after its opening quote
StringEnd(t, j) ==
    IF j > Len(t) THEN 0
    ELSE IF t[j] = Quote THEN j + 1
    ELSE IF t[j] = Backslash
         THEN IF j + 1 <= Len(t)
                 /\ t[j + 1] \in {Quote, Backslash, "/", "b", "f", "n", "r", "t"}
              THEN StringEnd(t, j + 2)
              ELSE IF /\ j + 5 <= Len(t)
                      /\ t[j + 1] = "u"
                      /\ AllDigits(SubSeq(t, j + 2, j + 5), 16)
                   THEN StringEnd(t, j + 6)
              ELSE 0
    ELSE IF t[j] \in Controls THEN 0
    ELSE StringEnd(t, j + 1)

RECURSIVE NumberEnd(_, _)
NumberEnd(t, j) ==
    IF j <= Len(t) /\ t[j] \in {Digits[d] : d \in 1..10}
    THEN NumberEnd(t, j + 1)
    ELSE j

RECURSIVE ValueEnd(_, _)
RECURSIVE ElementsEnd(_, _)
RECURSIVE MembersEnd(_, _)

ValueEnd(t, i) ==
    IF i > Len(t) THEN 0
    ELSE IF t[i] \in {"null", "true", "false"} THEN i + 1
    ELSE IF t[i] \in {Digits[d] : d \in 1..10} THEN NumberEnd(t, i + 1)
    ELSE IF t[i] = "-"
         THEN IF i + 1 <= Len(t) /\ t[i + 1] \in {Digits[d] : d \in 1..10}
              THEN NumberEnd(t, i + 2)
              ELSE 0
    ELSE IF t[i] = Quote THEN StringEnd(t, i + 1)
    ELSE IF t[i] = "["
         THEN IF i + 1 <= Len(t) /\ t[i + 1] = "]" THEN i + 2
              ELSE ElementsEnd(t, i + 1)
    ELSE IF t[i] = "{"
         THEN IF i + 1 <= Len(t) /\ t[i + 1] = "}" THEN i + 2
              ELSE MembersEnd(t, i + 1)
    ELSE 0

\* i is where an element of an array starts
ElementsEnd(t, i) ==
    LET e == ValueEnd(t, i)
    IN  IF e = 0 \/ e > Len(t) THEN 0
        ELSE IF t[e] = "," THEN ElementsEnd(t, e + 1)
        ELSE IF t[e] = "]" THEN e + 1
        ELSE 0

\* i is where a member of an object starts: a string, a colon, a value
MembersEnd(t, i) ==
    LET k == IF i <= Len(t) /\ t[i] = Quote THEN StringEnd(t, i + 1) ELSE 0
        e == IF k = 0 \/ k > Len(t) \/ t[k] # ":" THEN 0 ELSE ValueEnd(t, k + 1)
    IN  IF e = 0 \/ e > Len(t) THEN 0
        ELSE IF t[e] = "," THEN MembersEnd(t, e + 1)
        ELSE IF t[e] = "}" THEN e + 1
        ELSE 0

ValidJSON(t) == ValueEnd(t, 1) = Len(t) + 1

(***************************************************************************)
(* C11: whenever the end of the output is pushed, the text delivered is a  *)
(* JSON text, or is empty when the root (or what a root promise resolves   *)
(* to) is undefined or a function.  Stated for the roots whose keys need   *)
(* no escaping.                                                            *)
(***************************************************************************)
RootAbsent ==
    \/ IsAbsent(toJSON(root))
    \/ root.t = "promise" /\ IsAbsent(root.val)

SafeKeys ==
    \A n \in Nodes(root) :
        n.t = "obj" => \A i \in 1..Len(n.keys) : n.keys[i] # KeyQ

C11_ValidJSON ==
    (ended > 0 /\ SafeKeys) => \/ ValidJSON(Delivered)
                               \/ Delivered = <<>> /\ RootAbsent

\* no promise resolved to undefined and no toJSON returning undefined
NothingEmpty ==
    \A n \in Nodes(root) :
        /\ n.t = "promise" => ~IsAbsent(n.val)
        /\ n.t = "fn" => ~IsAbsent(n.ret)

\* the same for such roots (holds)
C11_ValidWhenNothingEmpty ==
    (ended > 0 /\ SafeKeys /\ NothingEmpty)
        => \/ ValidJSON(Delivered)
           \/ Delivered = <<>> /\ RootAbsent

(***************************************************************************)
(* C12: under an array replacer, an object at any depth, also within       *)
(* arrays, is delivered with those of its keys that are in the array and   *)
(* whose value is neither undefined nor a function, in the object's key    *)
(* order; an array keeps every element (undefined and functions as null).  *)
(* Stated for the roots of primitives, arrays and objects.                 *)
(***************************************************************************)
RECURSIVE Allowlisted(_, _)
Allowlisted(value, keys) ==
    CASE value.t = "arr" ->
            <<"[">>
            \o Join([i \in 1..Len(value.items) |->
                    IF IsAbsent(value.items[i]) THEN <<"null">>
                    ELSE Allowlisted(value.items[i], keys)])
            \o <<"]">>
      [] value.t = "obj" ->
            LET kept == KeepIdx([i \in 1..Len(value.keys) |->
                                    /\ value.keys[i] \in keys
                                    /\ ~IsAbsent(value.vals[i])])
            IN  <<"{">>
                \o Join([j \in 1..Len(kept) |->
                        KeyLabel(value.keys[kept[j]])
                        \o Allowlisted(value.vals[kept[j]], keys)])
                \o <<"}">>
      [] OTHER -> StringifyPrimitive(value).s

C12_AllowlistAtEveryDepth ==
    (ended > 0 /\ replacer.kind = "array" /\ IsPlain(root))
        => Delivered = Allowlisted(root, replacer.keys)

\* the nested root delivered under the allowlist: the inner objects filtered,
\* the keys in the object's order, the arrays' elements all there
C12_Witness ==
    /\ ended > 0
    /\ replacer.kind = "array"
    /\ root = Nested
    /\ Delivered = <<"[", "{", Quote, "k", Quote, Quote, ":", "2", ",",
                     Quote, "a", Quote, ":", "[", "{", "}", ",", "null", "]",
                     "}", "]">>

(***************************************************************************)
(* C13: under a function replacer, a container is passed to the function   *)
(* with the key undefined, then each member of the result with its key or  *)
(* its index as a string; what is delivered for a member is the function's *)
(* result, a member of an object whose result is undefined or a function   *)
(* is left out, an element of an array whose result is one is null, and    *)
(* the others keep their order.  Stated for the roots of primitives,       *)
(* arrays and objects.                                                     *)
(***************************************************************************)
RECURSIVE Transformed(_, _)
Transformed(value, rep) ==
    CASE value.t = "arr" ->
            LET w == Call(rep, NoKey, value)
                r(i) == Call(rep, NumStr(i - 1), w.items[i])
            IN  <<"[">>
                \o Join([i \in 1..Len(w.items) |->
                        IF IsAbsent(r(i)) THEN <<"null">>
                        ELSE Transformed(r(i), rep)])
                \o <<"]">>
      [] value.t = "obj" ->
            LET w == Call(rep, NoKey, value)
                r(i) == Call(rep, w.keys[i], w.vals[i])
                kept == KeepIdx([i \in 1..Len(w.keys) |-> ~IsAbsent(r(i))])
            IN  <<"{">>
                \o Join([j \in 1..Len(kept) |->
                        KeyLabel(w.keys[kept[j]])
                        \o Transformed(r(kept[j]), rep)])
                \o <<"}">>
      [] OTHER -> StringifyPrimitive(value).s

C13_TransformFn ==
    (ended > 0 /\ replacer.kind = "fn" /\ IsPlain(root))
        => Delivered = Transformed(root, replacer)

\* the function replaced the root by its member a, and the members delivered
\* are those of the replacement
C13_Witness ==
    /\ ended > 0
    /\ replacer = FnReplacer("unwrap")
    /\ root = Obj(<<KeyA, KeyB>>,
                  <<Obj(<<KeyB, KeyA>>, <<Num(2), Num(3)>>), Arr(<<Null>>)>>)
    /\ Delivered = <<"{", Quote, "b", Quote, ":", "2", ",",
                     Quote, "a", Quote, ":", "3", "}">>

(***************************************************************************)
(* C14: a value with a toJSON method is replaced by what the method        *)
(* returns, as the root, as an element of an array and as a member of an   *)
(* object, so that none of its own keys is delivered; the method is called *)
(* once, and what it returns is serialized by its own type, its toJSON not *)
(* called.  Stated for the default replacer and the roots without promises *)
(* and streams.                                                            *)
(***************************************************************************)
RECURSIVE HookOnce(_)
RECURSIVE Bare(_)
\* the text of a value: its toJSON called once, the result serialized as it is
HookOnce(value) == Bare(toJSON(value))

\* the text of a value whose own toJSON is not called
Bare(v) ==
    CASE v.t = "arr" ->
            <<"[">>
            \o Join([i \in 1..Len(v.items) |->
                    IF IsAbsent(v.items[i]) THEN <<"null">>
                    ELSE HookOnce(v.items[i])])
            \o <<"]">>
      [] v.t = "obj" ->
            LET kept == KeepIdx([i \in 1..Len(v.keys) |-> ~IsAbsent(v.vals[i])])
            IN  <<"{">>
                \o Join([j \in 1..Len(kept) |->
                        KeyLabel(v.keys[kept[j]]) \o HookOnce(v.vals[kept[j]])])
                \o <<"}">>
      [] OTHER -> StringifyPrimitive(v).s

HasHook(value) == \E n \in Nodes(value) : n.t = "obj" /\ toJSON(n) # n

Mentions(text, key) == \E i \in 1..Len(text) : <<text[i]>> = key

\* the root itself, the one element or the one member
Position(value) ==
    CASE value.t = "arr" /\ Len(value.items) = 1 -> value.items[1]
      [] value.t = "obj" /\ value.keys = <<KeyQ>> -> value.vals[1]
      [] OTHER -> value

C14_HookOnce ==
    (/\ ended > 0
     /\ replacer = DefaultReplacer
     /\ HasHook(root)
     /\ \A n \in Nodes(root) : n.t \notin {"promise", "text", "items"})
        => /\ Delivered = HookOnce(root)
           /\ Position(root) = Hooked(Obj(<<KeyA>>, <<Num(1)>>))
                => (~Mentions(Delivered, <<"own">>) /\ Mentions(Delivered, KeyA))
           /\ Position(root) = HookedTwice
                => /\ ~Mentions(Delivered, <<"outer">>)
                   /\ Mentions(Delivered, <<"own">>)
                   /\ ~Mentions(Delivered, KeyA)

\* an element whose toJSON returns an object with a toJSON: the text is that
\* of the returned object's own keys
C14_Witness ==
    /\ ended > 0
    /\ replacer = DefaultReplacer
    /\ root = Arr(<<HookedTwice>>)
    /\ Delivered = <<"[", "{", Quote, "own", Quote, ":", "7", "}", "]">>

(***************************************************************************)
(* C15: once the stream is destroyed no stream is bound and none has a     *)
(* 'data' listener of _read on it, and from then on no chunk is taken from *)
(* a stream, no listener is added and nothing is pushed.                   *)
(***************************************************************************)
Released ==
    destroyed => /\ src = 0
                 /\ \A id \in Ids :
                        streams[id].st # "ended" => streams[id].listeners = 0

NothingAfterTeardown ==
    destroyed =>
        /\ out' = out
        /\ ended' = ended
        /\ \A id \in Ids :
            /\ streams'[id].left = streams[id].left
            /\ streams'[id].listeners <= streams[id].listeners
            /\ streams'[id].flowing => streams[id].flowing

C15_TeardownReleases == []Released /\ [][NothingAfterTeardown]_vars

(***************************************************************************)
(* C16: a stream that has emitted 'end' or 'error' is no longer this.src,  *)
(* and pMode is true only while the then and catch callbacks of the        *)
(* promise the generator stands at have not run.                           *)
(***************************************************************************)
C16_UnboundWhenOver ==
    /\ \A id \in Ids : streams[id].st \in {"ended", "failed"} => src # id
    /\ pMode => \E id \in Ids : AtPromise(id) /\ id \in waiting

\* the same for streams that end and promises that resolve (holds)
C16_UnboundWhenDone ==
    /\ \A id \in Ids : streams[id].st = "ended" => src # id
    /\ pMode => \E id \in Ids :
                    /\ AtPromise(id)
                    /\ id \in waiting \/ promises[id].st = "rejected"

(***************************************************************************)
(* C17: a _read call of the Readable in which the generator reaches a      *)
(* promise or a stream binds it (the callbacks registered and pMode set,   *)
(* or this.src set) and pushes nothing: no fragment, no end.               *)
(***************************************************************************)
\* this step is a _read call of the Readable that took the generator to a
\* yield of kind k for promise or stream id
Meets(k, id) ==
    /\ pulses' = pulses + 1
    /\ jsonIterator'.pc = jsonIterator.pc + 1
    /\ jsonIterator'.pc <= Len(jsonIterator.prog)
    /\ jsonIterator.prog[jsonIterator'.pc].k = k
    /\ jsonIterator.prog[jsonIterator'.pc].id = id

BindsPromise(id) == pMode' /\ id \in waiting' /\ src' = 0

BindsStream(id) == src' = id /\ streams'[id].handlers /\ ~pMode'

NoFragmentOnBind ==
    \A id \in Ids :
        /\ Meets("promise", id) => (BindsPromise(id) /\ out' = out /\ ended' = ended)
        /\ Meets("text", id) => (BindsStream(id) /\ out' = out /\ ended' = ended)
        /\ Meets("items", id) => (BindsStream(id) /\ out' = out /\ ended' = ended)

C17_NoFragmentOnBind == [][NoFragmentOnBind]_vars

(***************************************************************************)
(* C17, amended: a _read call of the Readable in which the generator       *)
(* reaches a promise registers the callbacks and pushes nothing, what the  *)
(* promise resolves to being pushed by a later step; one in which the      *)
(* generator reaches a stream binds the stream and pushes the opening      *)
(* delimiter in that call, and takes nothing from the stream.              *)
(***************************************************************************)
DelimiterOnBind ==
    \A id \in Ids :
        /\ Meets("promise", id) => (BindsPromise(id) /\ out' = out /\ ended' = ended)
        /\ Meets("text", id) =>
            /\ BindsStream(id)
            /\ out' = Append(out, <<Quote>>)
            /\ ended' = ended
            /\ streams'[id].left = streams[id].left
            /\ streams'[id].listeners = 0
        /\ Meets("items", id) =>
            /\ BindsStream(id)
            /\ out' = Append(out, <<"[">>)
            /\ ended' = ended
            /\ streams'[id].left = streams[id].left
            /\ streams'[id].listeners = 0

C17_DelimiterOnBind == [][DelimiterOnBind]_vars

\* four _read calls: one pushed '[', one met the promise and pushed nothing
\* (the string came with the resolution), one pushed ',', one met the stream
\* and pushed its opening quote
C17_Witness ==
    /\ root.t = "arr"
    /\ Len(root.items) = 2
    /\ root.items[1].t = "promise"
    /\ root.items[2].t = "text"
    /\ replacer = DefaultReplacer
    /\ pulses = 4
    /\ src = 2
    /\ streams[2].listeners = 0
    /\ out = <<<<"[">>, QuoteString(<<"a", "b", "c">>), <<",">>, <<Quote>>>>

(***************************************************************************)
(* C18: while a stream is bound or the generator stands at a promise, the  *)
(* generator is not advanced: a _read call of the Readable with a stream   *)
(* bound resumes the stream and puts a 'data' listener on it, none comes   *)
(* while a promise is awaited, and the generator goes on only in the step  *)
(* of the bound stream's 'end' or of the promise's then callback; a stream *)
(* is never bound while pMode is set.                                      *)
(***************************************************************************)
Advances == jsonIterator'.pc # jsonIterator.pc

IsEndOf(id) == streams[id].st \in {"open", "failed"} /\ streams'[id].st = "ended"

IsThenOf(id) ==
    /\ AtPromise(id)
    /\ id \in waiting
    /\ promises[id].st = "resolved"
    /\ id \notin waiting'

SuspendedUntilEvent ==
    /\ (Advances /\ src # 0) => IsEndOf(src)
    /\ (Advances /\ pMode) => \E id \in Ids : IsThenOf(id)
    /\ (pulses' = pulses + 1 /\ src # 0) =>
            /\ jsonIterator' = jsonIterator
            /\ out' = out
            /\ src' = src
            /\ streams'[src].flowing
            /\ streams'[src].listeners = streams[src].listeners + 1
    /\ pulses' = pulses + 1 => ~pMode

C18_SuspendedUntilEvent ==
    [](~(src # 0 /\ pMode)) /\ [][SuspendedUntilEvent]_vars

\* three _read calls and three fragments with the generator still at the
\* stream's first yield
C18_Witness ==
    /\ root.t = "text"
    /\ src = 1
    /\ jsonIterator.pc = 1
    /\ pulses >= 3
    /\ Len(out) >= 3

(***************************************************************************)
(* C19: a text stream that ends without a chunk is delivered as '"' '"',   *)
(* an objectMode stream that ends without an item as '[' ']'.  The 'data'  *)
(* listener of the outstanding _read call never runs; the 'end' handler    *)
(* alone clears this.src and answers that call with the closing delimiter, *)
(* and the members after the stream follow.                                *)
(***************************************************************************)
IsEmptyStream(id) ==
    LET n == StreamNode(root, id)
    IN  \/ n.t = "text" /\ n.chunks = <<>>
        \/ n.t = "items" /\ n.items = <<>>

Closing(id) == IF streams[id].mode = "obj" THEN <<"]">> ELSE <<Quote>>

EmptyDelivered ==
    ended > 0 =>
        /\ (root.t = "text" /\ root.chunks = <<>>) => out = <<<<Quote>>, <<Quote>>>>
        /\ (root.t = "items" /\ root.items = <<>>) => out = <<<<"[">>, <<"]">>>>
        /\ (root \in EmptyStreams /\ root.t = "arr" /\ replacer = DefaultReplacer)
            => Delivered = <<"[", Quote, Quote, ",", "[", "]", ",", "1", "]">>
        /\ (root \in EmptyStreams /\ root.t = "obj" /\ replacer = DefaultReplacer)
            => Delivered = <<"{", Quote, "a", Quote, ":", "[", "]", ",",
                             Quote, "b", Quote, ":", Quote, Quote, "}">>

EndAloneAnswers ==
    \A id \in Ids :
        IsEmptyStream(id) =>
            \* the listeners stay where they are: none runs
            /\ streams'[id].listeners >= streams[id].listeners
            /\ IsEndOf(id) =>
                /\ src = id
                /\ streams[id].listeners >= 1
                /\ reading
                /\ src' = 0
                /\ out' = Append(out, Closing(id))
                /\ ~reading'

C19_EmptyStreams == []EmptyDelivered /\ [][EndAloneAnswers]_vars

\* both empty streams ended, their listeners still waiting, the number after
\* them delivered
C19_Witness ==
    /\ root \in EmptyStreams
    /\ root.t = "arr"
    /\ replacer = DefaultReplacer
    /\ ended > 0
    /\ streams[1].listeners >= 1
    /\ streams[2].listeners >= 1
    /\ Delivered = <<"[", Quote, Quote, ",", "[", "]", ",", "1", "]">>
=============================================================================
